---- MODULE Spec2Model ----
(***************************************************************************)
(* Model of scripts/metrics-exporter.py: the ProxyMetrics store, the dante *)
(* log monitor thread, the latency and speed probe threads and the         *)
(* /metrics handler of the (single-threaded) HTTPServer.                   *)
(*                                                                         *)
(* Threads interleave at the granularity of one statement that touches     *)
(* the shared ProxyMetrics object.  The methods that take self.lock hold   *)
(* it from their first modelled statement to their last; do_GET never      *)
(* takes it.  time.time() is a non-decreasing integer clock (now, in       *)
(* ticks of one second); floats are exact rationals <<num, den>>.          *)
(***************************************************************************)
EXTENDS Integers, Sequences, FiniteSets, TLC

(* ------------------------------ bounds --------------------------------- *)
MaxTime == 2
MaxLines == 2
MaxExports == 1
MaxLatencyCycles == 1
MaxSpeedCycles == 1
MaxWg0 == 2
MaxConnId == 1
MaxCount == 10
MaxCalls == 2
MaxDurCalls == 102
VaryFirst == 2
MaxLockLines == 1

(* -------------------------- program constants -------------------------- *)
KeepDurations == 100
StaleMinutes == 3

(* ------------------------------ rationals ------------------------------ *)
RECURSIVE GCD(_, _)
GCD(a, b) == IF b = 0 THEN a ELSE GCD(b, a % b)

Abs(x) == IF x < 0 THEN -x ELSE x

\* the float n/d (d > 0) as a fraction in lowest terms
Frac(n, d) ==
    LET g == GCD(Abs(n), d) IN
    IF n = 0 THEN <<0, 1>> ELSE <<n \div g, d \div g>>

FracMul(q, k) == Frac(q[1] * k, q[2])

IsZero(q) == q[1] = 0

\* f'{x:.2f}': the value in hundredths, rounded to nearest, ties to even
Fmt2(q) ==
    LET x  == 100 * q[1]
        fl == x \div q[2]
        r  == x % q[2]
    IN  IF 2 * r < q[2] THEN fl
        ELSE IF 2 * r > q[2] THEN fl + 1
        ELSE IF fl % 2 = 0 THEN fl ELSE fl + 1

RECURSIVE SumSeq(_)
SumSeq(s) == IF s = <<>> THEN 0 ELSE s[1] + SumSeq(Tail(s))

(* ------------------------------- names --------------------------------- *)
\* a name is the sequence of its segments and separators
Unknown == <<"unknown">>
Loopback == <<"127", ".", "0", ".", "0", ".", "1">>
IpA == <<"172", ".", "23", ".", "0", ".", "10">>
IpB == <<"10", ".", "0", ".", "0", ".", "7">>
NoIp == <<>>

\* str.replace('.', '_').replace('-', '_')
Sanitize(name) ==
    [i \in DOMAIN name |-> IF name[i] \in {".", "-"} THEN "_" ELSE name[i]]

\* resolve_ip_to_container: a hostname from getent or reverse DNS, else the
\* ip with its dots replaced
ResolveOutcomes(ip) ==
    IF ip = IpA THEN {<<"web", "-", "1">>}
    ELSE {[i \in DOMAIN ip |-> IF ip[i] = "." THEN "_" ELSE ip[i]]}

(* ------------------------------ log lines ------------------------------ *)
\* A log line, by the tokens the monitor looks for:
\*   info    the line holds "info:"
\*   verdict "pass" for "pass(id)", "block" for "block(id)", "-" for none
\*   id      the number in the verdict's parentheses
\*   op      "tcp/accept", "tcp/connect" or "-"
\*   client  the client address of "]: IP.port IP.port", NoIp when absent
\*   closed  the line holds "closed"
\*   bytes   <<n>> for an "n bytes" token, <<>> when absent
\*   text    free text elsewhere in the line
Line(info, verdict, id, op, client, closed, bytes, text) ==
    [info |-> info, verdict |-> verdict, id |-> id, op |-> op,
     client |-> client, closed |-> closed, bytes |-> bytes, text |-> text]

ConnIds == 1..MaxConnId

Lines ==
    {Line(TRUE, "pass", 1, "tcp/accept", c, FALSE, <<>>, "") : c \in {IpA, Loopback}}
    \cup {Line(TRUE, "block", 1, "tcp/accept", IpB, FALSE, <<>>, ""),
          Line(TRUE, "block", 1, "tcp/accept", NoIp, FALSE, <<>>, "bypass rule"),
          Line(FALSE, "-", 1, "-", NoIp, FALSE, <<1>>, "")}
    \cup {Line(TRUE, "pass", i, "tcp/connect", NoIp, cl, <<>>, "") :
            i \in ConnIds, cl \in BOOLEAN}
    \cup {Line(TRUE, "pass", i, "-", NoIp, TRUE, <<2>>, "") : i \in ConnIds}

NoLine == Line(FALSE, "-", 1, "-", NoIp, FALSE, <<>>, "")

\* 'pass' in line
HasPass(line) == line.verdict = "pass" \/ line.text = "bypass rule"

\* 'block' in line
HasBlock(line) == line.verdict = "block"

\* re.search(r'pass\((\d+)\)', line): <<id>> on a match, <<>> otherwise
ConnIdMatch(line) == IF line.verdict = "pass" THEN <<line.id>> ELSE <<>>

\* lines 315-324: the client name the line is attributed to
ClientNames(line) ==
    IF line.client = NoIp \/ line.client = Loopback THEN {Unknown}
    ELSE ResolveOutcomes(line.client)

(* --------------------------- requests_by_host -------------------------- *)
\* the defaultdict(int), as its items in insertion order
DictGet(d, k) ==
    IF \E i \in DOMAIN d : d[i][1] = k
    THEN LET i == CHOOSE j \in DOMAIN d : d[j][1] = k IN d[i][2]
    ELSE 0

\* d[k] += 1
DictIncr(d, k) ==
    IF \E i \in DOMAIN d : d[i][1] = k
    THEN [i \in DOMAIN d |-> IF d[i][1] = k THEN <<k, d[i][2] + 1>> ELSE d[i]]
    ELSE Append(d, <<k, 1>>)

DictKeys(d) == {d[i][1] : i \in DOMAIN d}

(* ----------------------------- ProxyMetrics ---------------------------- *)
\* line 327: success = 'pass' in line
MarksSuccess(line) == HasPass(line)

\* lines 332-337: the line opens a connection
OpensConnection(line) ==
    HasPass(line) /\ line.op = "tcp/connect" /\ ConnIdMatch(line) # <<>>

\* lines 340-343: the line closes a connection
ClosesConnection(line) ==
    line.info /\ line.closed /\ ConnIdMatch(line) # <<>>

\* a get_success_rate that reports an idle proxy as 0 percent
SuccessRateIdleZero(s, total) ==
    IF total = 0 THEN <<0, 1>> ELSE FracMul(Frac(s, total), 100)

\* get_success_rate, on the values its two statements read
SuccessRateOf(s, total) ==
    IF total = 0 THEN <<100, 1>> ELSE FracMul(Frac(s, total), 100)

get_success_rate(s, f) == SuccessRateOf(s, s + f)

\* a record_request that does not count a failure
TallyDropsFailure(s, f, success) == IF success THEN <<s + 1, f>> ELSE <<s, f>>

\* record_request, lines 90-93: <<successful_requests, failed_requests>>
Tally(s, f, success) == IF success THEN <<s + 1, f>> ELSE <<s, f + 1>>

\* an add_connection_duration that pops the newest sample, not the oldest
AppendDurationPopsNewest(durs, d) ==
    LET a == Append(durs, d) IN
    IF Len(a) > KeepDurations THEN SubSeq(a, 1, Len(a) - 1) ELSE a

\* add_connection_duration, lines 115-118
AppendDuration(durs, d) ==
    LET a == Append(durs, d) IN
    IF Len(a) > KeepDurations THEN Tail(a) ELSE a

\* add_connection_duration, lines 120-121
MeanDuration(durs, old) ==
    IF durs # <<>> THEN Frac(SumSeq(durs), Len(durs)) ELSE old

\* a do_GET that renders positive gauges only
EmitGaugePositive(q) == q[1] > 0

\* do_GET, lines 184, 191 and 198: the gauge is rendered
EmitGauge(q) == ~IsZero(q)

(* --------------------------- check_vpn_status -------------------------- *)
MaxMinutes == 5

\* what ['wg', 'show', 'wg0'] gave:
\*   result    "ok" (returncode 0), "nonzero", or "raise" (timeout, no wg)
\*   peer      the output holds "peer:"
\*   handshake the output holds a "latest handshake:" line
\*   days, hours, minutes, seconds   the age that line prints, a component
\*             printed only when it is not zero
WgOutputs ==
    [result : {"ok", "nonzero", "raise"}, peer : BOOLEAN, handshake : {TRUE},
     days : 0..1, hours : {0, 2}, minutes : 0..MaxMinutes, seconds : {0, 45}]
    \cup
    [result : {"ok", "nonzero", "raise"}, peer : BOOLEAN, handshake : {FALSE},
     days : {0}, hours : {0}, minutes : {0}, seconds : {0}]

AgeSeconds(w) == ((w.days * 24 + w.hours) * 60 + w.minutes) * 60 + w.seconds

check_vpn_status(w) ==
    IF w.result # "ok" THEN FALSE
    ELSE IF ~w.peer THEN FALSE
    ELSE IF w.handshake
         THEN IF w.days > 0 \/ w.hours > 0 THEN FALSE
              ELSE IF w.minutes > 0 /\ w.minutes > StaleMinutes THEN FALSE
              ELSE TRUE
         ELSE FALSE

\* what check_vpn_status can return to do_GET
VpnResults == {check_vpn_status(w) : w \in WgOutputs}

(* ------------------------------- probes -------------------------------- *)
\* curl's %{speed_download}, in bytes per second
CurlSpeeds == {0, 1250000}

\* line 387
SpeedMbps(b) == Frac(b * 8, 1000000)

\* line 367
LatencyMs(start, end) == Frac((end - start) * 1000, 1)

Sentinel == <<-1, 1>>

(* ------------------------------- do_GET -------------------------------- *)
EmptyOut ==
    [bytes |-> 0, failed |-> 0, successful |-> 0, rate |-> 0, active |-> 0,
     req_rate |-> 0, latency |-> <<>>, speed |-> <<>>, avg |-> <<>>, vpn |-> 0,
     clients |-> <<>>]

Max(a, b) == IF a > b THEN a ELSE b

\* line 177
RequestRate(count, last, t) ==
    IF count > 0 THEN Frac(count * 60, Max(t - last, 1)) ELSE <<0, 1>>

Gauge(q) == IF EmitGauge(q) THEN <<Fmt2(q)>> ELSE <<>>

VARIABLES
    \* ProxyMetrics
    request_count, bytes_transferred, failed_requests, successful_requests,
    requests_by_host, last_request_time, initial_wg0_bytes,
    latency_ms, latency_last_check, download_speed_mbps, speed_last_check,
    connection_durations, avg_connection_duration, lock,
    \* environment
    now, wg0_bytes,
    \* monitor_dante_logs
    t_pc, t_line, t_client, t_dur, connection_start_times, lines_read,
    samples,
    \* periodic_latency_check
    l_pc, l_start, l_val, l_exit, l_cycles,
    \* periodic_speed_test
    s_pc, s_val, s_cycles,
    \* MetricsHandler
    e_pc, e_total, e_i, e_len, out, exports, e_last,
    \* calls of the pure functions
    wg_out, ret

store == <<request_count, bytes_transferred, failed_requests, successful_requests,
           requests_by_host, last_request_time, initial_wg0_bytes,
           latency_ms, latency_last_check, download_speed_mbps, speed_last_check,
           connection_durations, avg_connection_duration, lock>>
env == <<now, wg0_bytes>>
tracker == <<t_pc, t_line, t_client, t_dur, connection_start_times, lines_read, samples>>
latency == <<l_pc, l_start, l_val, l_exit, l_cycles>>
speed == <<s_pc, s_val, s_cycles>>
handler == <<e_pc, e_total, e_i, e_len, out, exports, e_last>>
calls == <<wg_out, ret>>
vars == <<store, env, tracker, latency, speed, handler, calls>>

\* get_wg0_bytes: the rx + tx total of wg0, or 0 when the read or parse fails
Wg0Reads == {wg0_bytes, 0}

NoWg == [result |-> "raise", peer |-> FALSE, handshake |-> FALSE,
         days |-> 0, hours |-> 0, minutes |-> 0, seconds |-> 0]

\* ProxyMetrics.__init__ and the locals of the threads main() starts
InitStore ==
    /\ request_count = 0
    /\ bytes_transferred = 0
    /\ failed_requests = 0
    /\ successful_requests = 0
    /\ requests_by_host = <<>>
    /\ last_request_time = 1
    /\ latency_ms = <<0, 1>>
    /\ latency_last_check = 0
    /\ download_speed_mbps = <<0, 1>>
    /\ speed_last_check = 0
    /\ connection_durations = <<>>
    /\ avg_connection_duration = <<0, 1>>
    /\ lock = "free"

InitThreads ==
    /\ now = 1
    /\ wg0_bytes = 1
    /\ initial_wg0_bytes \in Wg0Reads
    /\ t_pc = "start"
    /\ t_line = NoLine
    /\ t_client = Unknown
    /\ t_dur = 0
    /\ connection_start_times = [i \in ConnIds |-> 0]
    /\ lines_read = 0
    /\ samples = <<>>
    /\ l_pc = "l364"
    /\ l_start = 0
    /\ l_val = <<0, 1>>
    /\ l_exit = "-"
    /\ l_cycles = 0
    /\ s_pc = "s379"
    /\ s_val = <<0, 1>>
    /\ s_cycles = 0
    /\ e_pc = "idle"
    /\ e_total = 0
    /\ e_i = 0
    /\ e_len = 0
    /\ out = EmptyOut
    /\ exports = 0
    /\ e_last = "-"

Init ==
    /\ InitStore
    /\ InitThreads
    /\ wg_out = NoWg
    /\ ret = <<>>

(* ----------------------------- environment ----------------------------- *)
\* time passes
Tick ==
    /\ now < MaxTime
    /\ now' = now + 1
    /\ UNCHANGED <<store, wg0_bytes, tracker, latency, speed, handler, calls>>

\* bytes cross the wg0 interface
Traffic ==
    /\ wg0_bytes < MaxWg0
    /\ wg0_bytes' = wg0_bytes + 1
    /\ UNCHANGED <<store, now, tracker, latency, speed, handler, calls>>

(* -------------------------- monitor_dante_logs ------------------------- *)
\* lines 302-309 and 354-358: Popen of tail. When tail cannot be started
\* (FileNotFoundError) the thread parks; when the log file is missing tail
\* exits, the loop over its stdout ends at once and the thread returns.
monitor_start ==
    /\ t_pc = "start"
    /\ t_pc' \in {"read", "parked", "done"}
    /\ UNCHANGED <<store, env, t_line, t_client, t_dur, connection_start_times,
                   lines_read, samples, latency, speed, handler, calls>>

\* lines 311-326: the next line, its client name, and whether it is a request
monitor_read_line ==
    /\ t_pc = "read"
    /\ lines_read < MaxLines
    /\ \E line \in Lines :
        /\ t_line' = line
        /\ \E c \in ClientNames(line) : t_client' = c
        /\ t_pc' = IF HasPass(line) \/ HasBlock(line) THEN "rr86" ELSE "track"
    /\ lines_read' = lines_read + 1
    /\ UNCHANGED <<store, env, t_dur, connection_start_times, samples,
                   latency, speed, handler, calls>>

\* record_request, lines 85-86
record_request_86 ==
    /\ t_pc = "rr86"
    /\ lock = "free"
    /\ lock' = "tracker"
    /\ request_count' = request_count + 1
    /\ t_pc' = "rr88"
    /\ UNCHANGED <<bytes_transferred, failed_requests, successful_requests,
                   requests_by_host, last_request_time, initial_wg0_bytes,
                   latency_ms, latency_last_check, download_speed_mbps,
                   speed_last_check, connection_durations, avg_connection_duration>>
    /\ UNCHANGED <<env, t_line, t_client, t_dur, connection_start_times,
                   lines_read, samples, latency, speed, handler, calls>>

\* a record_request whose get_wg0_bytes takes self.lock itself
record_request_88_relocks ==
    /\ t_pc = "rr88"
    /\ lock = "free"
    /\ \E current_bytes \in Wg0Reads :
        bytes_transferred' = current_bytes - initial_wg0_bytes
    /\ t_pc' = "rr90"
    /\ UNCHANGED <<request_count, failed_requests, successful_requests,
                   requests_by_host, last_request_time, initial_wg0_bytes,
                   latency_ms, latency_last_check, download_speed_mbps,
                   speed_last_check, connection_durations, avg_connection_duration,
                   lock>>
    /\ UNCHANGED <<env, t_line, t_client, t_dur, connection_start_times,
                   lines_read, samples, latency, speed, handler, calls>>

\* record_request, lines 88-89
record_request_88 ==
    /\ t_pc = "rr88"
    /\ \E current_bytes \in Wg0Reads :
        bytes_transferred' = current_bytes - initial_wg0_bytes
    /\ t_pc' = "rr90"
    /\ UNCHANGED <<request_count, failed_requests, successful_requests,
                   requests_by_host, last_request_time, initial_wg0_bytes,
                   latency_ms, latency_last_check, download_speed_mbps,
                   speed_last_check, connection_durations, avg_connection_duration,
                   lock>>
    /\ UNCHANGED <<env, t_line, t_client, t_dur, connection_start_times,
                   lines_read, samples, latency, speed, handler, calls>>

\* record_request, lines 90-93
record_request_90 ==
    /\ t_pc = "rr90"
    /\ LET t == Tally(successful_requests, failed_requests, MarksSuccess(t_line)) IN
        /\ successful_requests' = t[1]
        /\ failed_requests' = t[2]
    /\ t_pc' = "rr94"
    /\ UNCHANGED <<request_count, bytes_transferred,
                   requests_by_host, last_request_time, initial_wg0_bytes,
                   latency_ms, latency_last_check, download_speed_mbps,
                   speed_last_check, connection_durations, avg_connection_duration,
                   lock>>
    /\ UNCHANGED <<env, t_line, t_client, t_dur, connection_start_times,
                   lines_read, samples, latency, speed, handler, calls>>

\* record_request, line 94, host being its default "unknown"
record_request_94 ==
    /\ t_pc = "rr94"
    /\ requests_by_host' = DictIncr(requests_by_host, Unknown)
    /\ t_pc' = "rr96"
    /\ UNCHANGED <<request_count, bytes_transferred, failed_requests,
                   successful_requests, last_request_time, initial_wg0_bytes,
                   latency_ms, latency_last_check, download_speed_mbps,
                   speed_last_check, connection_durations, avg_connection_duration,
                   lock>>
    /\ UNCHANGED <<env, t_line, t_client, t_dur, connection_start_times,
                   lines_read, samples, latency, speed, handler, calls>>

\* record_request, lines 96-98, and the release of the lock
record_request_96 ==
    /\ t_pc = "rr96"
    /\ requests_by_host' = IF t_client # Unknown
                           THEN DictIncr(requests_by_host, t_client)
                           ELSE requests_by_host
    /\ last_request_time' = now
    /\ lock' = "free"
    /\ t_pc' = "track"
    /\ UNCHANGED <<request_count, bytes_transferred, failed_requests,
                   successful_requests, initial_wg0_bytes,
                   latency_ms, latency_last_check, download_speed_mbps,
                   speed_last_check, connection_durations, avg_connection_duration>>
    /\ UNCHANGED <<env, t_line, t_client, t_dur, connection_start_times,
                   lines_read, samples, latency, speed, handler, calls>>

\* lines 350-352: bytes_transferred after the line's byte token is added
AddLineBytes(b, line) == IF line.bytes # <<>> THEN b + line.bytes[1] ELSE b

\* lines 332-345, and 350-352 when the line yields no duration sample
monitor_track ==
    /\ t_pc = "track"
    /\ LET id     == ConnIdMatch(t_line)[1]
           starts == IF OpensConnection(t_line)
                     THEN [connection_start_times EXCEPT ![id] = now]
                     ELSE connection_start_times
       IN  /\ connection_start_times' = starts
           /\ IF ClosesConnection(t_line) /\ starts[id] # 0
              THEN /\ t_dur' = now - starts[id]
                   /\ t_pc' = "add115"
                   /\ UNCHANGED <<bytes_transferred, t_line, t_client>>
              ELSE /\ bytes_transferred' = AddLineBytes(bytes_transferred, t_line)
                   /\ t_pc' = "read"
                   /\ t_line' = NoLine
                   /\ t_client' = Unknown
                   /\ UNCHANGED t_dur
    /\ UNCHANGED <<request_count, failed_requests, successful_requests,
                   requests_by_host, last_request_time, initial_wg0_bytes,
                   latency_ms, latency_last_check, download_speed_mbps,
                   speed_last_check, connection_durations, avg_connection_duration,
                   lock>>
    /\ UNCHANGED <<env, lines_read, samples, latency, speed, handler, calls>>

\* add_connection_duration, lines 114-118
add_connection_duration_115 ==
    /\ t_pc = "add115"
    /\ lock = "free"
    /\ lock' = "tracker"
    /\ connection_durations' = AppendDuration(connection_durations, t_dur)
    /\ samples' = Append(samples, t_dur)
    /\ t_pc' = "add120"
    /\ UNCHANGED <<request_count, bytes_transferred, failed_requests,
                   successful_requests, requests_by_host, last_request_time,
                   initial_wg0_bytes, latency_ms, latency_last_check,
                   download_speed_mbps, speed_last_check, avg_connection_duration>>
    /\ UNCHANGED <<env, t_line, t_client, t_dur, connection_start_times,
                   lines_read, latency, speed, handler, calls>>

\* add_connection_duration, lines 120-121, and the release of the lock
add_connection_duration_120 ==
    /\ t_pc = "add120"
    /\ avg_connection_duration' =
           MeanDuration(connection_durations, avg_connection_duration)
    /\ lock' = "free"
    /\ t_pc' = "del347"
    /\ UNCHANGED <<request_count, bytes_transferred, failed_requests,
                   successful_requests, requests_by_host, last_request_time,
                   initial_wg0_bytes, latency_ms, latency_last_check,
                   download_speed_mbps, speed_last_check, connection_durations>>
    /\ UNCHANGED <<env, t_line, t_client, t_dur, connection_start_times,
                   lines_read, samples, latency, speed, handler, calls>>

\* lines 347-352
monitor_after_add ==
    /\ t_pc = "del347"
    /\ connection_start_times' =
           [connection_start_times EXCEPT ![ConnIdMatch(t_line)[1]] = 0]
    /\ bytes_transferred' = AddLineBytes(bytes_transferred, t_line)
    /\ t_pc' = "read"
    /\ t_line' = NoLine
    /\ t_client' = Unknown
    /\ t_dur' = 0
    /\ UNCHANGED <<request_count, failed_requests, successful_requests,
                   requests_by_host, last_request_time, initial_wg0_bytes,
                   latency_ms, latency_last_check, download_speed_mbps,
                   speed_last_check, connection_durations, avg_connection_duration,
                   lock>>
    /\ UNCHANGED <<env, lines_read, samples, latency, speed, handler, calls>>

(* ------------------------ periodic_latency_check ----------------------- *)
\* line 364
latency_start ==
    /\ l_pc = "l364"
    /\ l_cycles < MaxLatencyCycles
    /\ l_start' = now
    /\ l_pc' = "l365"
    /\ UNCHANGED <<store, env, tracker, l_val, l_exit, l_cycles, speed, handler, calls>>

\* lines 365-367: ping has run, whatever its exit status, and took time
latency_ping_returns ==
    /\ l_pc = "l365"
    /\ now > l_start
    /\ \E rc \in {"0", "1"} : l_exit' = rc
    /\ l_val' = LatencyMs(l_start, now)
    /\ l_pc' = "u103"
    /\ UNCHANGED <<store, env, tracker, l_start, l_cycles, speed, handler, calls>>

\* a periodic_latency_check with no except clause: the exception ends the
\* thread
latency_ping_uncaught ==
    /\ l_pc = "l365"
    /\ l_exit' = "raise"
    /\ l_pc' = "dead"
    /\ UNCHANGED <<store, env, tracker, l_start, l_val, l_cycles, speed, handler, calls>>

\* lines 370-372: subprocess.run raised
latency_ping_raises ==
    /\ l_pc = "l365"
    /\ l_exit' = "raise"
    /\ l_val' = Sentinel
    /\ l_pc' = "u103"
    /\ UNCHANGED <<store, env, tracker, l_start, l_cycles, speed, handler, calls>>

\* update_latency, lines 102-103
update_latency_103 ==
    /\ l_pc = "u103"
    /\ lock = "free"
    /\ lock' = "latency"
    /\ latency_ms' = l_val
    /\ l_pc' = "u104"
    /\ UNCHANGED <<request_count, bytes_transferred, failed_requests,
                   successful_requests, requests_by_host, last_request_time,
                   initial_wg0_bytes, latency_last_check, download_speed_mbps,
                   speed_last_check, connection_durations, avg_connection_duration>>
    /\ UNCHANGED <<env, tracker, l_start, l_val, l_exit, l_cycles, speed, handler, calls>>

\* update_latency, line 104, the release of the lock, and line 373
update_latency_104 ==
    /\ l_pc = "u104"
    /\ latency_last_check' = now
    /\ lock' = "free"
    /\ l_pc' = "l364"
    /\ l_cycles' = l_cycles + 1
    /\ l_start' = 0
    /\ l_val' = <<0, 1>>
    /\ l_exit' = "-"
    /\ UNCHANGED <<request_count, bytes_transferred, failed_requests,
                   successful_requests, requests_by_host, last_request_time,
                   initial_wg0_bytes, latency_ms, download_speed_mbps,
                   speed_last_check, connection_durations, avg_connection_duration>>
    /\ UNCHANGED <<env, tracker, speed, handler, calls>>

(* -------------------------- periodic_speed_test ------------------------ *)
\* lines 379-388: curl exited 0 and printed its speed
speed_curl_ok ==
    /\ s_pc = "s379"
    /\ s_cycles < MaxSpeedCycles
    /\ \E b \in CurlSpeeds : s_val' = SpeedMbps(b)
    /\ s_pc' = "v108"
    /\ UNCHANGED <<store, env, tracker, latency, s_cycles, handler, calls>>

\* lines 379-385 and 393: curl exited non-zero, nothing is written
speed_curl_fails ==
    /\ s_pc = "s379"
    /\ s_cycles < MaxSpeedCycles
    /\ s_cycles' = s_cycles + 1
    /\ UNCHANGED <<store, env, tracker, latency, s_pc, s_val, handler, calls>>

\* lines 390-392: subprocess.run or float() raised
speed_curl_raises ==
    /\ s_pc = "s379"
    /\ s_cycles < MaxSpeedCycles
    /\ s_val' = Sentinel
    /\ s_pc' = "v108"
    /\ UNCHANGED <<store, env, tracker, latency, s_cycles, handler, calls>>

\* update_speed, lines 108-109
update_speed_109 ==
    /\ s_pc = "v108"
    /\ lock = "free"
    /\ lock' = "speed"
    /\ download_speed_mbps' = s_val
    /\ s_pc' = "v110"
    /\ UNCHANGED <<request_count, bytes_transferred, failed_requests,
                   successful_requests, requests_by_host, last_request_time,
                   initial_wg0_bytes, latency_ms, latency_last_check,
                   speed_last_check, connection_durations, avg_connection_duration>>
    /\ UNCHANGED <<env, tracker, latency, s_val, s_cycles, handler, calls>>

\* update_speed, line 110, the release of the lock, and line 393
update_speed_110 ==
    /\ s_pc = "v110"
    /\ speed_last_check' = now
    /\ lock' = "free"
    /\ s_pc' = "s379"
    /\ s_cycles' = s_cycles + 1
    /\ s_val' = <<0, 1>>
    /\ UNCHANGED <<request_count, bytes_transferred, failed_requests,
                   successful_requests, requests_by_host, last_request_time,
                   initial_wg0_bytes, latency_ms, latency_last_check,
                   download_speed_mbps, connection_durations, avg_connection_duration>>
    /\ UNCHANGED <<env, tracker, latency, handler, calls>>

(* --------------------------- MetricsHandler ---------------------------- *)
\* lines 222-224: a GET of another path
do_GET_other ==
    /\ e_pc = "idle"
    /\ exports < MaxExports
    /\ exports' = exports + 1
    /\ e_last' = "404"
    /\ UNCHANGED <<store, env, tracker, latency, speed, e_pc, e_total, e_i, e_len,
                   out, calls>>

\* lines 127-147: GET /metrics, the interface bytes
do_GET_135 ==
    /\ e_pc = "idle"
    /\ exports < MaxExports
    /\ \E current_bytes \in Wg0Reads :
        out' = [EmptyOut EXCEPT !.bytes = current_bytes - initial_wg0_bytes]
    /\ e_pc' = "e153"
    /\ UNCHANGED <<store, env, tracker, latency, speed, e_total, e_i, e_len,
                   exports, e_last, calls>>

\* line 153
do_GET_153 ==
    /\ e_pc = "e153"
    /\ out' = [out EXCEPT !.failed = failed_requests]
    /\ e_pc' = "e159"
    /\ UNCHANGED <<store, env, tracker, latency, speed, e_total, e_i, e_len,
                   exports, e_last, calls>>

\* line 159
do_GET_159 ==
    /\ e_pc = "e159"
    /\ out' = [out EXCEPT !.successful = successful_requests]
    /\ e_pc' = "e79"
    /\ UNCHANGED <<store, env, tracker, latency, speed, e_total, e_i, e_len,
                   exports, e_last, calls>>

\* line 163, get_success_rate line 79
do_GET_rate_79 ==
    /\ e_pc = "e79"
    /\ e_total' = successful_requests + failed_requests
    /\ e_pc' = "e82"
    /\ UNCHANGED <<store, env, tracker, latency, speed, e_i, e_len, out,
                   exports, e_last, calls>>

\* get_success_rate lines 80-82, and line 166
do_GET_rate_82 ==
    /\ e_pc = "e82"
    /\ out' = [out EXCEPT !.rate = Fmt2(SuccessRateOf(successful_requests, e_total))]
    /\ e_total' = 0
    /\ e_pc' = "e177"
    /\ UNCHANGED <<store, env, tracker, latency, speed, e_i, e_len,
                   exports, e_last, calls>>

\* lines 170-180: the dante children ps shows, and the request rate
do_GET_177 ==
    /\ e_pc = "e177"
    /\ \E active_conns \in 0..1 :
        out' = [out EXCEPT !.active = active_conns,
                           !.req_rate = Fmt2(RequestRate(request_count,
                                                         last_request_time, now))]
    /\ e_pc' = "e184"
    /\ UNCHANGED <<store, env, tracker, latency, speed, e_total, e_i, e_len,
                   exports, e_last, calls>>

\* lines 184-188
do_GET_184 ==
    /\ e_pc = "e184"
    /\ out' = [out EXCEPT !.latency = Gauge(latency_ms)]
    /\ e_pc' = "e191"
    /\ UNCHANGED <<store, env, tracker, latency, speed, e_total, e_i, e_len,
                   exports, e_last, calls>>

\* lines 191-195
do_GET_191 ==
    /\ e_pc = "e191"
    /\ out' = [out EXCEPT !.speed = Gauge(download_speed_mbps)]
    /\ e_pc' = "e198"
    /\ UNCHANGED <<store, env, tracker, latency, speed, e_total, e_i, e_len,
                   exports, e_last, calls>>

\* lines 198-202
do_GET_198 ==
    /\ e_pc = "e198"
    /\ out' = [out EXCEPT !.avg = Gauge(avg_connection_duration)]
    /\ e_pc' = "e205"
    /\ UNCHANGED <<store, env, tracker, latency, speed, e_total, e_i, e_len,
                   exports, e_last, calls>>

\* lines 205-214: the tunnel status, and the iterator over requests_by_host
do_GET_205 ==
    /\ e_pc = "e205"
    /\ \E up \in VpnResults :
        out' = [out EXCEPT !.vpn = IF up THEN 1 ELSE 0]
    /\ e_len' = Len(requests_by_host)
    /\ e_i' = 0
    /\ e_pc' = "e214"
    /\ UNCHANGED <<store, env, tracker, latency, speed, e_total,
                   exports, e_last, calls>>

\* lines 214-218: the iterator's next item. A dict whose size changed since
\* the iterator was made raises RuntimeError, which ends the request with
\* no body written.
do_GET_214 ==
    /\ e_pc = "e214"
    /\ IF Len(requests_by_host) # e_len
       THEN /\ e_pc' = "idle"
            /\ out' = EmptyOut
            /\ e_i' = 0
            /\ e_len' = 0
            /\ exports' = exports + 1
            /\ e_last' = "error"
       ELSE IF e_i < e_len
       THEN /\ LET item == requests_by_host[e_i + 1] IN
                out' = IF item[2] > 0
                       THEN [out EXCEPT !.clients =
                                Append(@, <<Sanitize(item[1]), item[2]>>)]
                       ELSE out
            /\ e_i' = e_i + 1
            /\ UNCHANGED <<e_pc, e_len, exports, e_last>>
       ELSE /\ e_pc' = "e221"
            /\ UNCHANGED <<out, e_i, e_len, exports, e_last>>
    /\ UNCHANGED <<store, env, tracker, latency, speed, e_total, calls>>

\* line 221: the document is written
do_GET_221 ==
    /\ e_pc = "e221"
    /\ e_pc' = "idle"
    /\ out' = EmptyOut
    /\ e_i' = 0
    /\ e_len' = 0
    /\ exports' = exports + 1
    /\ e_last' = "200"
    /\ UNCHANGED <<store, env, tracker, latency, speed, e_total, calls>>

(* ------------------ the methods of ProxyMetrics, whole ----------------- *)
\* Each method below runs under self.lock from its first statement to its
\* last, so to every other holder of the lock it is one step.

\* record_request, lines 84-98
record_request(success, client) ==
    /\ lock = "free"
    /\ request_count' = request_count + 1
    /\ \E current_bytes \in Wg0Reads :
        bytes_transferred' = current_bytes - initial_wg0_bytes
    /\ LET t == Tally(successful_requests, failed_requests, success) IN
        /\ successful_requests' = t[1]
        /\ failed_requests' = t[2]
    /\ requests_by_host' =
        LET d == DictIncr(requests_by_host, Unknown) IN
        IF client # Unknown THEN DictIncr(d, client) ELSE d
    /\ last_request_time' = now
    /\ UNCHANGED <<initial_wg0_bytes, latency_ms, latency_last_check,
                   download_speed_mbps, speed_last_check, connection_durations,
                   avg_connection_duration, lock>>
    /\ UNCHANGED <<env, tracker, latency, speed, handler, calls>>

\* update_latency, lines 100-104
update_latency(ms) ==
    /\ lock = "free"
    /\ latency_ms' = ms
    /\ latency_last_check' = now
    /\ UNCHANGED <<request_count, bytes_transferred, failed_requests,
                   successful_requests, requests_by_host, last_request_time,
                   initial_wg0_bytes, download_speed_mbps, speed_last_check,
                   connection_durations, avg_connection_duration, lock>>
    /\ UNCHANGED <<env, tracker, latency, speed, handler, calls>>

\* update_speed, lines 106-110
update_speed(mbps) ==
    /\ lock = "free"
    /\ download_speed_mbps' = mbps
    /\ speed_last_check' = now
    /\ UNCHANGED <<request_count, bytes_transferred, failed_requests,
                   successful_requests, requests_by_host, last_request_time,
                   initial_wg0_bytes, latency_ms, latency_last_check,
                   connection_durations, avg_connection_duration, lock>>
    /\ UNCHANGED <<env, tracker, latency, speed, handler, calls>>

\* add_connection_duration, lines 112-121
add_connection_duration(duration_seconds) ==
    /\ lock = "free"
    /\ connection_durations' = AppendDuration(connection_durations, duration_seconds)
    /\ avg_connection_duration' =
           MeanDuration(connection_durations', avg_connection_duration)
    /\ samples' = Append(samples, duration_seconds)
    /\ UNCHANGED <<request_count, bytes_transferred, failed_requests,
                   successful_requests, requests_by_host, last_request_time,
                   initial_wg0_bytes, latency_ms, latency_last_check,
                   download_speed_mbps, speed_last_check, lock>>
    /\ UNCHANGED <<env, t_pc, t_line, t_client, t_dur, connection_start_times,
                   lines_read, latency, speed, handler, calls>>

\* the arguments the callers pass
ClientArgs == {Unknown, <<"web", "-", "1">>}
LatencyArgs == {Sentinel, LatencyMs(0, 1)}
SpeedArgs == {Sentinel, SpeedMbps(1250000)}
DurationArgs == 0..2

call_record_request ==
    /\ request_count < MaxCalls
    /\ \E success \in BOOLEAN, client \in ClientArgs : record_request(success, client)

call_update_latency == \E ms \in LatencyArgs : update_latency(ms)

call_update_speed == \E mbps \in SpeedArgs : update_speed(mbps)

call_add_connection_duration ==
    /\ Len(samples) < MaxCalls
    /\ \E d \in DurationArgs : add_connection_duration(d)

\* the store under any sequence of calls of its methods
SpecStore ==
    Init /\ [][Tick \/ call_record_request \/ call_update_latency
               \/ call_update_speed \/ call_add_connection_duration]_vars

\* add_connection_duration called MaxDurCalls times: the first VaryFirst
\* durations are any of DurationArgs, the k-th after them is k
call_many_durations ==
    /\ Len(samples) < MaxDurCalls
    /\ \E d \in (IF Len(samples) < VaryFirst THEN DurationArgs
                 ELSE {Len(samples) + 1}) :
        add_connection_duration(d)

SpecDur == Init /\ [][call_many_durations]_vars

\* get_success_rate on any pair of counters
InitRate ==
    /\ InitThreads
    /\ successful_requests \in 0..MaxCount
    /\ failed_requests \in 0..MaxCount
    /\ request_count = successful_requests + failed_requests
    /\ requests_by_host = IF request_count = 0 THEN <<>>
                          ELSE << <<Unknown, request_count>> >>
    /\ bytes_transferred = 0
    /\ last_request_time = 1
    /\ latency_ms = <<0, 1>>
    /\ latency_last_check = 0
    /\ download_speed_mbps = <<0, 1>>
    /\ speed_last_check = 0
    /\ connection_durations = <<>>
    /\ avg_connection_duration = <<0, 1>>
    /\ lock = "free"
    /\ wg_out = NoWg
    /\ ret = <<>>

call_get_success_rate ==
    /\ ret = <<>>
    /\ ret' = <<get_success_rate(successful_requests, failed_requests)>>
    /\ UNCHANGED <<store, env, tracker, latency, speed, handler, wg_out>>

SpecRate == InitRate /\ [][call_get_success_rate]_vars

\* check_vpn_status on any output of wg
InitVpn ==
    /\ InitStore
    /\ InitThreads
    /\ wg_out \in WgOutputs
    /\ ret = <<>>

call_check_vpn_status ==
    /\ ret = <<>>
    /\ ret' = <<check_vpn_status(wg_out)>>
    /\ UNCHANGED <<store, env, tracker, latency, speed, handler, wg_out>>

SpecVpn == InitVpn /\ [][call_check_vpn_status]_vars

(* ------------------------------ the program ---------------------------- *)
Monitor ==
    \/ monitor_start
    \/ monitor_read_line
    \/ record_request_86
    \/ record_request_88
    \/ record_request_90
    \/ record_request_94
    \/ record_request_96
    \/ monitor_track
    \/ add_connection_duration_115
    \/ add_connection_duration_120
    \/ monitor_after_add

LatencyProbe ==
    \/ latency_start
    \/ latency_ping_returns
    \/ latency_ping_raises
    \/ update_latency_103
    \/ update_latency_104

SpeedProbe ==
    \/ speed_curl_ok
    \/ speed_curl_fails
    \/ speed_curl_raises
    \/ update_speed_109
    \/ update_speed_110

Handler ==
    \/ do_GET_other
    \/ do_GET_135
    \/ do_GET_153
    \/ do_GET_159
    \/ do_GET_rate_79
    \/ do_GET_rate_82
    \/ do_GET_177
    \/ do_GET_184
    \/ do_GET_191
    \/ do_GET_198
    \/ do_GET_205
    \/ do_GET_214
    \/ do_GET_221

Next == Tick \/ Traffic \/ Monitor \/ LatencyProbe \/ SpeedProbe \/ Handler

Spec == Init /\ [][Next]_vars

\* the log monitor alone
SpecLog == Init /\ [][Tick \/ Traffic \/ Monitor]_vars

\* requests for /metrics while the log monitor runs
SpecScrape == Init /\ [][Monitor \/ Handler]_vars

\* requests for /metrics while the probes run
SpecProbes == Init /\ [][Tick \/ LatencyProbe \/ SpeedProbe \/ Handler]_vars

(* ------------------------- the threads, for ever ----------------------- *)
\* periodic_latency_check and periodic_speed_test as the while True loops
\* they are: no count of cycles is kept, and time.sleep has its own position.

\* lines 362-364: the next cycle begins
latency_loop_start ==
    /\ l_pc = "l364"
    /\ l_start' = now
    /\ l_pc' = "l365"
    /\ UNCHANGED <<store, env, tracker, l_val, l_exit, l_cycles, speed, handler, calls>>

\* update_latency, line 104, and the release of the lock
update_latency_104_loop ==
    /\ l_pc = "u104"
    /\ latency_last_check' = now
    /\ lock' = "free"
    /\ l_pc' = "l373"
    /\ l_start' = 0
    /\ l_val' = <<0, 1>>
    /\ l_exit' = "-"
    /\ UNCHANGED <<request_count, bytes_transferred, failed_requests,
                   successful_requests, requests_by_host, last_request_time,
                   initial_wg0_bytes, latency_ms, download_speed_mbps,
                   speed_last_check, connection_durations, avg_connection_duration>>
    /\ UNCHANGED <<env, tracker, l_cycles, speed, handler, calls>>

\* line 373: time.sleep(30) returns
latency_sleep_373 ==
    /\ l_pc = "l373"
    /\ l_pc' = "l364"
    /\ UNCHANGED <<store, env, tracker, l_start, l_val, l_exit, l_cycles, speed,
                   handler, calls>>

LatencyLoop ==
    \/ latency_loop_start
    \/ latency_ping_returns
    \/ latency_ping_raises
    \/ update_latency_103
    \/ update_latency_104_loop
    \/ latency_sleep_373

\* lines 379-388: curl exited 0 and printed its speed
speed_loop_curl_ok ==
    /\ s_pc = "s379"
    /\ \E b \in CurlSpeeds : s_val' = SpeedMbps(b)
    /\ s_pc' = "v108"
    /\ UNCHANGED <<store, env, tracker, latency, s_cycles, handler, calls>>

\* lines 379-385: curl exited non-zero, nothing is written
speed_loop_curl_fails ==
    /\ s_pc = "s379"
    /\ s_pc' = "s393"
    /\ UNCHANGED <<store, env, tracker, latency, s_val, s_cycles, handler, calls>>

\* lines 390-392: subprocess.run or float() raised
speed_loop_curl_raises ==
    /\ s_pc = "s379"
    /\ s_val' = Sentinel
    /\ s_pc' = "v108"
    /\ UNCHANGED <<store, env, tracker, latency, s_cycles, handler, calls>>

\* update_speed, line 110, and the release of the lock
update_speed_110_loop ==
    /\ s_pc = "v110"
    /\ speed_last_check' = now
    /\ lock' = "free"
    /\ s_pc' = "s393"
    /\ s_val' = <<0, 1>>
    /\ UNCHANGED <<request_count, bytes_transferred, failed_requests,
                   successful_requests, requests_by_host, last_request_time,
                   initial_wg0_bytes, latency_ms, latency_last_check,
                   download_speed_mbps, connection_durations, avg_connection_duration>>
    /\ UNCHANGED <<env, tracker, latency, s_cycles, handler, calls>>

\* line 393: time.sleep(600) returns
speed_sleep_393 ==
    /\ s_pc = "s393"
    /\ s_pc' = "s379"
    /\ UNCHANGED <<store, env, tracker, latency, s_val, s_cycles, handler, calls>>

SpeedLoop ==
    \/ speed_loop_curl_ok
    \/ speed_loop_curl_fails
    \/ speed_loop_curl_raises
    \/ update_speed_109
    \/ update_speed_110_loop
    \/ speed_sleep_393

\* The probes for ever, as time passes.  Each thread that can take a step
\* infinitely often does take one: the scheduler runs every thread, a
\* subprocess returns or raises (ping -W 2, curl --max-time 60 and
\* timeout=70), time.sleep returns, and a thread blocked in Lock.acquire is
\* woken when the lock is released, whose other users then sleep or wait.
SpecLoops ==
    /\ Init
    /\ [][Tick \/ LatencyLoop \/ SpeedLoop]_vars
    /\ SF_vars(LatencyLoop)
    /\ SF_vars(SpeedLoop)

\* the monitor on a log of at most MaxLockLines lines
MonitorBrief == Monitor /\ lines_read' <= MaxLockLines

\* the monitor's steps from a line read to the wait for the next line
Processing ==
    \/ record_request_86
    \/ record_request_88
    \/ record_request_90
    \/ record_request_94
    \/ record_request_96
    \/ monitor_track
    \/ add_connection_duration_115
    \/ add_connection_duration_120
    \/ monitor_after_add

\* The three threads that take self.lock, under the same scheduling; the
\* arrival of a log line is left to the environment.
SpecLock ==
    /\ Init
    /\ [][Tick \/ MonitorBrief \/ LatencyProbe \/ SpeedProbe]_vars
    /\ SF_vars(Processing)
    /\ SF_vars(LatencyProbe)
    /\ SF_vars(SpeedProbe)

(* ------------------------------- claims -------------------------------- *)
RecordRequestPcs == {"rr88", "rr90", "rr94", "rr96"}

Min(a, b) == IF a < b THEN a ELSE b

\* C1: after every completed record_request, whatever calls of
\* update_latency, update_speed and add_connection_duration surround it,
\* request_count = successful_requests + failed_requests.
C1_CountsAgree ==
    t_pc \notin RecordRequestPcs =>
        request_count = successful_requests + failed_requests

C1_Witness ==
    /\ request_count = 2
    /\ successful_requests = 1
    /\ failed_requests = 1
    /\ latency_ms = Sentinel
    /\ ~IsZero(download_speed_mbps)
    /\ connection_durations # <<>>

\* C2: the success rate a /metrics response renders is the rate of the
\* successful and failed totals the same response renders.
C2_RateMatchesRenderedCounters ==
    e_pc = "e221" =>
        out.rate = Fmt2(get_success_rate(out.successful, out.failed))

\* C3: get_success_rate returns 100 when no request was recorded, and
\* otherwise the number q with q * (s + f) = 100 * s.
C3_SuccessRate ==
    ret # <<>> =>
        LET q     == ret[1]
            total == successful_requests + failed_requests
        IN  IF total = 0 THEN q = <<100, 1>>
            ELSE q[2] > 0 /\ q[1] * total = 100 * successful_requests * q[2]

C3_Witness ==
    /\ successful_requests = 3
    /\ failed_requests = 1
    /\ ret = << <<75, 1>> >>

\* C4: after n calls of add_connection_duration, connection_durations is
\* the last min(n, 100) durations passed, in call order, and
\* avg_connection_duration is their arithmetic mean.
C4_LastHundredAndMean ==
    LET n == Len(samples)
        k == Min(n, 100)
    IN  /\ connection_durations = SubSeq(samples, n - k + 1, n)
        /\ Len(connection_durations) <= 100
        /\ n > 0 =>
            /\ avg_connection_duration[2] > 0
            /\ avg_connection_duration[1] * k =
                   SumSeq(SubSeq(samples, n - k + 1, n)) * avg_connection_duration[2]

C4_Witness ==
    /\ Len(samples) = 102
    /\ Len(connection_durations) = 100
    /\ connection_durations[1] = samples[3]
    /\ connection_durations[100] = samples[102]

\* no update_latency call has yet written latency_ms
LatencyNeverWritten == l_cycles = 0 /\ l_pc # "u104"

\* C5: when do_GET decides on the latency block, the block is rendered if
\* an update_latency call has completed, whatever it wrote, and left out if
\* none has begun to write.
C5_LatencyGaugeRule ==
    [][(e_pc = "e184" /\ e_pc' = "e191") =>
          /\ latency_last_check # 0 => out'.latency # <<>>
          /\ LatencyNeverWritten => out'.latency = <<>>]_vars

C5_Witness ==
    /\ e_pc = "e191"
    /\ latency_last_check # 0
    /\ out.latency = <<-100>>

\* C6: when do_GET decides on the average-duration block, the block is
\* rendered if add_connection_duration has recorded a sample, whatever its
\* value, and left out if none was recorded.
C6_AvgDurationGaugeRule ==
    [][(e_pc = "e198" /\ e_pc' = "e205") =>
          /\ (connection_durations # <<>> /\ t_pc # "add120") => out'.avg # <<>>
          /\ samples = <<>> => out'.avg = <<>>]_vars

\* C7: a pass line with a known client adds one to successful_requests and
\* one to that client's entry of requests_by_host and changes no other
\* entry; a line with no known client leaves requests_by_host unchanged.
C7_ClientAttribution ==
    [][(t_pc \in RecordRequestPcs /\ (t_line.verdict = "pass" \/ t_client = Unknown)) =>
          IF t_client # Unknown
          THEN /\ \A k \in DictKeys(requests_by_host) \cup DictKeys(requests_by_host') :
                    k # t_client =>
                        DictGet(requests_by_host', k) = DictGet(requests_by_host, k)
               /\ (t_pc = "rr96" /\ t_pc' = "track") =>
                    DictGet(requests_by_host', t_client) =
                        DictGet(requests_by_host, t_client) + 1
               /\ (t_pc = "rr90" /\ t_pc' = "rr94") =>
                    successful_requests' = successful_requests + 1
          ELSE requests_by_host' = requests_by_host]_vars

\* C8: a line with a block verdict adds one to failed_requests and leaves
\* successful_requests as it was, whatever else the line holds.
C8_BlockIsFailure ==
    [][(t_pc = "rr90" /\ t_pc' = "rr94" /\ t_line.verdict = "block") =>
          /\ failed_requests' = failed_requests + 1
          /\ successful_requests' = successful_requests]_vars

\* C9: a closed line whose id has a pending start time yields one duration
\* sample, the time since the line that opened it, and the entry is then
\* discarded; a closed line whose id has no pending start time yields none.
C9_DurationSamples ==
    [][/\ (t_pc = "track" /\ t_pc' # "track" /\ ClosesConnection(t_line)) =>
            IF connection_start_times[t_line.id] # 0
            THEN /\ t_pc' = "add115"
                 /\ t_dur' = now - connection_start_times[t_line.id]
            ELSE t_pc' # "add115"
       /\ (t_pc = "del347" /\ t_pc' # "del347") =>
            connection_start_times'[t_line.id] = 0]_vars

\* C10: check_vpn_status returns True only when wg ran, a peer is configured
\* and the latest handshake is less than 3 minutes old.
C10_UpOnlyIfFresh ==
    ret # <<>> =>
        (ret[1] => /\ wg_out.result = "ok"
                   /\ wg_out.peer
                   /\ wg_out.handshake
                   /\ AgeSeconds(wg_out) < 180)

\* C11: every cycle of periodic_speed_test ends after exactly one
\* update_speed call: a cycle is over only when update_speed has written a
\* value (the computed speed, or -1 after any failure, a non-zero exit of
\* curl included).
C11_SpeedCycleWritesOnce ==
    [][s_cycles' = s_cycles + 1 =>
          /\ s_pc = "v110"
          /\ speed_last_check' = now]_vars

\* C12: the update_latency call of a cycle writes the elapsed milliseconds
\* when ping exited 0 and -1 when it did not (no reply, non-zero exit, or an
\* exception); a failed echo never stores a positive latency.
C12_FailedEchoWritesSentinel ==
    [][(l_pc = "u103" /\ l_pc' = "u104") =>
          IF l_exit = "0"
          THEN latency_ms' = l_val /\ l_val[1] > 0
          ELSE latency_ms' = Sentinel]_vars

\* C13: bytes_transferred, stored and as rendered in
\* proxy_bytes_transferred_total, never decreases and is never negative,
\* also when a read of the interface counters fails and gives 0.
C13_BytesNeverDecrease ==
    [][/\ bytes_transferred' >= bytes_transferred
       /\ bytes_transferred' >= 0
       /\ out'.bytes >= 0]_vars

\* Popen found no log to follow
LogUnavailable == t_pc \in {"parked", "done"}

\* C14: when the log is unavailable at start the monitor thread neither
\* crashes nor returns, it parks, and every log-derived metric keeps its
\* initial value (the probes go on with their cycles meanwhile).
C14_ParksWhenLogUnavailable ==
    LogUnavailable =>
        /\ t_pc = "parked"
        /\ request_count = 0
        /\ successful_requests = 0
        /\ failed_requests = 0
        /\ requests_by_host = <<>>
        /\ connection_durations = <<>>

\* the byte token the step scans, 0 when the step is not the scan of a line
\* or the line has none
ScannedBytes ==
    IF t_pc \in {"track", "del347"} /\ t_pc' = "read" /\ t_line.bytes # <<>>
    THEN t_line.bytes[1]
    ELSE 0

\* C15: the running counter of in-line byte counts is the sum of the byte
\* tokens scanned so far: every step adds the token it scans and nothing
\* else, and no record_request overwrites the sum with the interface delta.
C15_LineBytesKept ==
    [][bytes_transferred' = bytes_transferred + ScannedBytes]_vars

\* the thread is at an external call: the read of /proc/net/dev in
\* get_wg0_bytes, ping, or curl
InExternalCall(thread) ==
    \/ thread = "tracker" /\ t_pc = "rr88"
    \/ thread = "latency" /\ l_pc = "l365"
    \/ thread = "speed" /\ s_pc = "s379"

\* C16: whoever holds self.lock is doing in-memory updates only, and is not
\* at a file read, a subprocess or a network probe.
C16_NoExternalCallUnderLock ==
    lock # "free" => ~InExternalCall(lock)

\* C19: the iteration of do_GET over requests_by_host always ends with the
\* document being written, also when a record_request inserts a new key
\* while it runs: no request for /metrics ends without its body.
C19_ExportCompletes ==
    [][(e_pc = "e214" /\ e_pc' # "e214") => e_pc' = "e221"]_vars

\* C17: each probe is an endless loop: every cycle it starts ends, after a
\* success or a failure alike, and after every cycle it starts another; and
\* no step of one probe, a failure included, touches the position or the
\* locals of the other probe or of the log monitor.
C17_ProbesRepeat ==
    /\ [](l_pc = "l365" => <>(l_pc = "l373"))
    /\ [](l_pc = "l373" => <>(l_pc = "l365"))
    /\ [](s_pc \in {"v108", "v110"} => <>(s_pc = "s393"))
    /\ [](s_pc = "s393" => <>(s_pc = "s379"))
    /\ []<>(l_pc = "l373")
    /\ []<>(s_pc = "s393")
    /\ [][l_pc' # l_pc => UNCHANGED <<speed, tracker>>]_vars
    /\ [][s_pc' # s_pc => UNCHANGED <<latency, tracker>>]_vars

C17_Witness ==
    /\ latency_ms = Sentinel
    /\ l_pc = "l365"
    /\ download_speed_mbps = SpeedMbps(1250000)
    /\ speed_last_check # 0
    /\ s_pc = "s379"

\* the thread is blocked in Lock.acquire
Requests(thread) ==
    \/ thread = "tracker" /\ t_pc \in {"rr86", "add115"}
    \/ thread = "latency" /\ l_pc = "u103"
    \/ thread = "speed" /\ s_pc = "v108"

LockUsers == {"tracker", "latency", "speed"}

\* C18: self.lock never deadlocks: a held lock is released, a thread that
\* requests it acquires it, and its holder never requests it again.
C18_LockNeverStuck ==
    /\ [](lock # "free" => <>(lock = "free"))
    /\ \A th \in LockUsers : [](Requests(th) => <>(lock = th))
    /\ [](lock # "free" => ~Requests(lock))

C18_Witness ==
    /\ lock = "tracker"
    /\ Requests("latency")
    /\ Requests("speed")

====
